---- MODULE Spec2Model ----
(***************************************************************************)
(* Proximity dispatch edge function (src/index.ts, lines 1-364): the       *)
(* process-wide credential cache, the request handler and its three        *)
(* external calls (token exchange, store query, push gateway).             *)
(*                                                                         *)
(* One action is one run of the handler between two awaits: JavaScript     *)
(* runs a callback to its next await without interleaving, and any other   *)
(* request may run while a call is awaited.                                *)
(***************************************************************************)
EXTENDS Integers, Sequences, FiniteSets, TLC

VARIABLES
    clock,        \* Math.floor(Date.now() / 1000)
    cachedToken,  \* <<>> (null) or <<[token, expiresAt]>>
    issued,       \* tokens the endpoint has granted so far
    store,        \* rows of the providers collection, as runQuery returns them
    clients,      \* the requests clients send: [method, body]
    budget,       \* invocations the run may still start
    req,          \* per invocation slot: position in the handler and its locals
    geo           \* one call of a geohash function on its own: arguments and result

vars == <<clock, cachedToken, issued, store, clients, budget, req, geo>>

(***************************************************************************)
(* Bounds of the model.                                                    *)
(***************************************************************************)
NumRequests == 2        \* invocations of one run, in flight together or in turn
MaxRows == 3            \* rows in a store answer
ClockStep == 150        \* seconds one Tick advances the clock
MaxTicks == 1           \* Ticks in one run

(***************************************************************************)
(* Program constant.                                                       *)
(***************************************************************************)
Margin == 300

Requests == 1..NumRequests

(***************************************************************************)
(* Strings whose characters matter are tuples of one-character strings.    *)
(* Undefined is JavaScript's undefined (a missing field).                  *)
(***************************************************************************)
Undefined == <<"undefined">>
Space == " "

RECURSIVE trimStart(_)
trimStart(s) ==
    IF s = <<>> THEN s
    ELSE IF Head(s) = Space THEN trimStart(Tail(s)) ELSE s

RECURSIVE trimEnd(_)
trimEnd(s) ==
    IF s = <<>> THEN s
    ELSE IF s[Len(s)] = Space THEN trimEnd(SubSeq(s, 1, Len(s) - 1)) ELSE s

\* String.prototype.trim
trim(s) == trimEnd(trimStart(s))

\* JavaScript truthiness of an optional string
TruthyStr(s) == s # Undefined /\ s # <<>>

(***************************************************************************)
(* Geohash.  Coordinates are integers in units of 1/(200 * 2^13) degree:   *)
(* every midpoint of the bisection down to precision 7, every cell centre  *)
(* and the neighbour step 0.005 are whole numbers of units, and no centre  *)
(* plus or minus the step falls on a midpoint, so the comparisons of the   *)
(* code come out as they do on its floating-point numbers.  A key is a     *)
(* tuple of one-character strings.                                         *)
(***************************************************************************)
UnitsPerDegree == 200 * 8192
Degrees(d) == d * UnitsPerDegree

BASE32 == << "0", "1", "2", "3", "4", "5", "6", "7", "8", "9", "b", "c", "d", "e",
             "f", "g", "h", "j", "k", "m", "n", "p", "q", "r", "s", "t", "u", "v",
             "w", "x", "y", "z" >>

\* BASE32.indexOf(c)
indexOf(c) ==
    IF \E i \in 1..Len(BASE32) : BASE32[i] = c
    THEN (CHOOSE i \in 1..Len(BASE32) : BASE32[i] = c) - 1
    ELSE -1

\* (val >> i) & 1; every bit of -1 is set
bitOf(val, i) == IF val < 0 THEN 1 ELSE (val \div (2 ^ i)) % 2

\* the variables of the while loop of encodeGeohash when it is entered
encodeStart ==
    [hash |-> <<>>, evenBit |-> TRUE,
     latInterval |-> <<Degrees(-90), Degrees(90)>>,
     lonInterval |-> <<Degrees(-180), Degrees(180)>>,
     bit |-> 0, ch |-> 0]

\* one turn of the while loop
encodeTurn(lat, lon, v) ==
    LET interval == IF v.evenBit THEN v.lonInterval ELSE v.latInterval
        mid == (interval[1] + interval[2]) \div 2
        up == IF v.evenBit THEN lon > mid ELSE lat > mid
        ch == IF up THEN v.ch + 2 ^ (4 - v.bit) ELSE v.ch
        halved == IF up THEN <<mid, interval[2]>> ELSE <<interval[1], mid>>
        full == v.bit + 1 = 5
    IN  [hash |-> IF full THEN Append(v.hash, BASE32[ch + 1]) ELSE v.hash,
         evenBit |-> ~v.evenBit,
         latInterval |-> IF v.evenBit THEN v.latInterval ELSE halved,
         lonInterval |-> IF v.evenBit THEN halved ELSE v.lonInterval,
         bit |-> IF full THEN 0 ELSE v.bit + 1,
         ch |-> IF full THEN 0 ELSE ch]

\* the while loop, five turns at a time: hash grows on every fifth turn
RECURSIVE encodeLoop(_, _, _, _)
encodeLoop(lat, lon, precision, v) ==
    IF Len(v.hash) >= precision THEN v.hash
    ELSE encodeLoop(lat, lon, precision,
             encodeTurn(lat, lon, encodeTurn(lat, lon, encodeTurn(lat, lon,
                 encodeTurn(lat, lon, encodeTurn(lat, lon, v))))))

\* faulty variant: the bits of a symbol are filled from the low end
encodeGeohashLowBitFirst(lat, lon, precision) ==
    LET hash == encodeLoop(lat, lon, precision, encodeStart)
        flip(c) == LET v == indexOf(c)
                   IN  BASE32[1 + bitOf(v, 0) * 16 + bitOf(v, 1) * 8 + bitOf(v, 2) * 4
                                + bitOf(v, 3) * 2 + bitOf(v, 4)]
    IN  [i \in 1..Len(hash) |-> flip(hash[i])]

\* faulty variant: the first bit is taken from the latitude
encodeGeohashFromLatitude(lat, lon, precision) ==
    encodeLoop(lat, lon, precision, [encodeStart EXCEPT !.evenBit = FALSE])

encodeGeohash(lat, lon, precision) == encodeLoop(lat, lon, precision, encodeStart)

\* the variables of the loops of approximateCenter when they are entered; k is
\* the position in hash of the symbol c of the outer loop
decodeStart ==
    [latMin |-> Degrees(-90), latMax |-> Degrees(90),
     lonMin |-> Degrees(-180), lonMax |-> Degrees(180), isLon |-> TRUE, k |-> 1]

\* one turn of the inner loop: bit i of val
decodeTurn(v, val, i) ==
    LET lonMid == (v.lonMin + v.lonMax) \div 2
        latMid == (v.latMin + v.latMax) \div 2
    IN  IF v.isLon
        THEN IF bitOf(val, i) = 1
             THEN [v EXCEPT !.lonMin = lonMid, !.isLon = ~v.isLon]
             ELSE [v EXCEPT !.lonMax = lonMid, !.isLon = ~v.isLon]
        ELSE IF bitOf(val, i) = 1
             THEN [v EXCEPT !.latMin = latMid, !.isLon = ~v.isLon]
             ELSE [v EXCEPT !.latMax = latMid, !.isLon = ~v.isLon]

\* one turn of the outer loop over the symbol of index val: five turns of
\* the inner loop, for (let i = 4; i >= 0; i--)
decodeSymbol(v, val) ==
    [decodeTurn(decodeTurn(decodeTurn(decodeTurn(decodeTurn(
         v, val, 4), val, 3), val, 2), val, 1), val, 0) EXCEPT !.k = v.k + 1]

\* the outer loop, for (const c of hash)
RECURSIVE decodeLoop(_, _)
decodeLoop(hash, v) ==
    IF v.k > Len(hash) THEN v
    ELSE decodeLoop(hash, decodeSymbol(v, indexOf(hash[v.k])))

\* latMin, latMax, lonMin, lonMax of approximateCenter when its loops end
boundsOf(hash) == decodeLoop(hash, decodeStart)

approximateCenter(hash) ==
    LET b == boundsOf(hash)
    IN  [lat |-> (b.latMin + b.latMax) \div 2, lon |-> (b.lonMin + b.lonMax) \div 2]

\* const step = 0.005
step == UnitsPerDegree \div 200

\* faulty variant: the extra ring of the comment is switched on
offsetsWithExtraRing ==
    << <<0, 0>>,
       <<0, step>>, <<step, step>>, <<step, 0>>, <<step, -step>>,
       <<0, -step>>, <<-step, -step>>, <<-step, 0>>, <<-step, step>>,
       <<0, step * 2>>, <<step * 2, 0>> >>

\* the offsets of getGeohashNeighbors, [dLat, dLon], in their order
offsets == << <<0, 0>>,
              <<0, step>>, <<step, step>>, <<step, 0>>, <<step, -step>>,
              <<0, -step>>, <<-step, -step>>, <<-step, 0>>, <<-step, step>> >>

\* Array.from of a Set the elements of s were added to in their order: the
\* first occurrences
insertionOrder(s) ==
    LET first == { i \in 1..Len(s) : \A j \in 1..(i - 1) : s[j] # s[i] }
    IN  [n \in 1..Cardinality(first) |->
             s[CHOOSE i \in first : Cardinality({ j \in first : j < i }) = n - 1]]

\* the keys the loop over the offsets adds: if (hash) neighbors.add(hash)
offsetHashes(c, precision) ==
    LET points == [k \in 1..Len(offsets) |->
                      [nLat |-> c.lat + offsets[k][1], nLon |-> c.lon + offsets[k][2]]]
    IN  SelectSeq([k \in DOMAIN points |->
                      encodeGeohash(points[k].nLat, points[k].nLon, precision)],
                  LAMBDA hash : hash # <<>>)

\* faulty variant: no short circuit for a short key
getGeohashNeighborsOfAnyLength(center) ==
    insertionOrder(<<center>> \o offsetHashes(approximateCenter(center), Len(center)))

\* faulty variant: the set does not start with the center
getGeohashNeighborsFromEmptySet(center) ==
    IF center = <<>> \/ Len(center) < 5 THEN <<center>>
    ELSE insertionOrder(offsetHashes(approximateCenter(center), Len(center)))

\* if (!center || center.length < 5) return [center]; then the list of the
\* Set that holds center and the keys of the offsets
getGeohashNeighbors(center) ==
    IF center = <<>> \/ Len(center) < 5 THEN <<center>>
    ELSE insertionOrder(<<center>> \o offsetHashes(approximateCenter(center),
                                                   Len(center)))

\* 37.7749, -122.4194 in units, and the key of precision 7 of that point
Downtown == [lat |-> 61890396, lon |-> -200571945]
DowntownKey == <<"9", "q", "8", "y", "y", "k", "8">>
\* a key with characters outside the alphabet, and a key far from Downtown
UpperCaseKey == <<"9", "Q", "8", "Y", "Y", "K", "8">>
FarKey == <<"s", "0", "0", "0", "0", "0", "0">>

(***************************************************************************)
(* Optional request fields: <<>> is a missing field, <<v>> a present one.  *)
(* latitude and longitude are whole degrees, geohash is a key.             *)
(***************************************************************************)
\* !field for a string field and for a number field
FalsyString(f) == f = <<>> \/ f[1] = ""
FalsyNumber(f) == f = <<>> \/ f[1] = 0

NoBody == [json |-> FALSE, service |-> <<>>, latitude |-> <<>>,
           longitude |-> <<>>, geohash |-> <<>>]

Body(sv, la, lo, gh) == [json |-> TRUE, service |-> sv, latitude |-> la,
                         longitude |-> lo, geohash |-> gh]

ValidBody == Body(<<"tow">>, <<37>>, <<-122>>, <<>>)

\* Request bodies the model sends; NoBody is a body req.json() cannot parse.
Bodies == { NoBody,
            ValidBody,
            Body(<<"tow">>, <<37>>, <<-122>>, <<DowntownKey>>),
            Body(<<"tow">>, <<37>>, <<-122>>, <<UpperCaseKey>>),
            Body(<<"tow">>, <<91>>, <<-122>>, <<>>),
            Body(<<"tow">>, <<37>>, <<181>>, <<>>),
            Body(<<>>, <<37>>, <<-122>>, <<>>),
            Body(<<"">>, <<37>>, <<-122>>, <<>>),
            Body(<<"tow">>, <<>>, <<-122>>, <<>>),
            Body(<<"tow">>, <<37>>, <<>>, <<>>),
            Body(<<"tow">>, <<>>, <<>>, <<DowntownKey>>),
            Body(<<"tow">>, <<0>>, <<-122>>, <<>>) }

Call(method, body) == [method |-> method, body |-> body]

AllCalls == { Call("GET", NoBody) } \union { Call("POST", b) : b \in Bodies }

\* the requests of the runs with concurrent invocations
FewCalls == { Call("POST", ValidBody),
              Call("POST", Body(<<"tow">>, <<>>, <<-122>>, <<>>)) }

(***************************************************************************)
(* Store rows and provider documents.                                      *)
(***************************************************************************)
Provider(player, sub, geohash, servicesOffered, acceptingRequests) ==
    [oneSignalPlayerId |-> player, oneSignalSubscriptionId |-> sub,
     geohash |-> geohash, servicesOffered |-> servicesOffered,
     acceptingRequests |-> acceptingRequests]
\* a provider at Downtown that offers towing and accepts requests
Fields(player, sub) == Provider(player, sub, DowntownKey, <<"tow">>, TRUE)
DocRow(player, sub) == [document |-> <<Fields(player, sub)>>]
\* a provider far from Downtown that offers another service and accepts none
FarRow == [document |-> <<Provider(Undefined, <<"b">>, FarKey, <<"tire">>, FALSE)>>]
\* a runQuery row that carries no document (readTime only)
EmptyRow == [document |-> <<>>]

RowPool == { EmptyRow,
             DocRow(Undefined, Undefined),
             DocRow(<<"a">>, Undefined),
             DocRow(Undefined, <<"a">>),
             DocRow(Undefined, <<"b">>),
             DocRow(<<>>, <<"b">>),
             DocRow(<<Space>>, <<"a">>),
             DocRow(Undefined, <<Space, Space>>) }

SeqsUpTo(S, n) == UNION { [1..k -> S] : k \in 0..n }

AllStores == SeqsUpTo(RowPool, MaxRows)

\* the store contents of the runs over every request
FewStores == { <<>>,
               <<DocRow(<<"a">>, Undefined), DocRow(Undefined, <<"a">>), FarRow>> }

Elems(s) == { s[i] : i \in 1..Len(s) }

\* the body of the runQuery call: no where clause
structuredQuery(geohashes, service) ==
    [from |-> "providers", where |-> <<>>, limit |-> 5]

\* a fieldFilter of a where clause applied to a document
matches(p, filter) ==
    CASE filter.op = "IN" -> p[filter.field] \in Elems(filter.value)
      [] filter.op = "ARRAY_CONTAINS" -> filter.value \in Elems(p[filter.field])
      [] OTHER -> p[filter.field] = filter.value

\* the rows a where clause selects; a row without document stays
selected(rows, where) ==
    SelectSeq(rows, LAMBDA row :
        \/ row.document = <<>>
        \/ \A i \in 1..Len(where) : matches(row.document[1], where[i]))

\* the answer of the store: the rows the where clause selects, limit at most
runQuery(query, rows) ==
    LET found == selected(rows, query.where)
    IN  IF Len(found) <= query.limit THEN found ELSE SubSeq(found, 1, query.limit)

\* json.filter(r => r.document).map(r => r.document.fields)
RECURSIVE documentsOf(_)
documentsOf(rows) ==
    IF rows = <<>> THEN <<>>
    ELSE IF Head(rows).document # <<>>
         THEN <<Head(rows).document[1]>> \o documentsOf(Tail(rows))
         ELSE documentsOf(Tail(rows))

\* p.oneSignalPlayerId?.stringValue || p.oneSignalSubscriptionId?.stringValue
playerIdOf(p) ==
    IF TruthyStr(p.oneSignalPlayerId) THEN p.oneSignalPlayerId
    ELSE p.oneSignalSubscriptionId

\* the filter callback (id) => id?.trim()
keepsId(id) == id # Undefined /\ trim(id) # <<>>

RECURSIVE playerIdsOf(_)
playerIdsOf(providers) ==
    IF providers = <<>> THEN <<>>
    ELSE LET id == playerIdOf(Head(providers))
         IN  (IF keepsId(id) THEN <<id>> ELSE <<>>) \o playerIdsOf(Tail(providers))

RECURSIVE uniqueAcc(_, _)
uniqueAcc(ids, acc) ==
    IF ids = <<>> THEN acc
    ELSE uniqueAcc(Tail(ids),
                   IF Head(ids) \in Elems(acc) THEN acc ELSE Append(acc, Head(ids)))

\* faulty variant: the identifiers are not deduplicated
uniqueIdsKeepsAll(ids) == ids

\* [...new Set(playerIds)]: first occurrences, in order
uniqueIdsOf(ids) == uniqueAcc(ids, <<>>)

(***************************************************************************)
(* Responses.  notified is -1 and message <<>> when the body has none.     *)
(***************************************************************************)
NoResponse == [code |-> 0, status |-> "", notified |-> -1, message |-> <<>>,
               error |-> "", details |-> ""]
methodNotAllowed == [NoResponse EXCEPT !.code = 405, !.error = "Method Not Allowed"]
missingFields == [NoResponse EXCEPT !.code = 400, !.error = "Missing required fields"]
internalError(msg) == [NoResponse EXCEPT !.code = 500,
                          !.error = "Internal server error", !.details = msg]
noProviders == [NoResponse EXCEPT !.code = 200, !.status = "no_providers",
                                   !.notified = 0]
success(n) == [NoResponse EXCEPT !.code = 200, !.status = "success", !.notified = n,
                 !.message = <<"Notified", n, "nearby",
                               IF n = 1 THEN "provider" ELSE "providers">>]

(***************************************************************************)
(* A bearer token: its serial number at the endpoint and the time the      *)
(* endpoint lets it expire (completion of the exchange + expires_in).      *)
(***************************************************************************)
Token(n, exp) == [n |-> n, exp |-> exp]
NoToken == Token(0, 0)

(***************************************************************************)
(* An invocation slot.  pc is the await the invocation is suspended at.    *)
(* The fields from seen on record what the invocation did.                 *)
(***************************************************************************)
Idle == [pc |-> "idle", method |-> "", body |-> NoBody,
         now |-> 0,            \* the now of getAccessToken
         seen |-> <<>>,        \* cachedToken when getAccessToken read it
         token |-> NoToken,    \* the token getAccessToken returned
         left |-> 0,           \* seconds that token was still valid when returned
         tokenResult |-> "",   \* cached, ok, notok, throws, signfail, absent
         exchanges |-> 0,      \* calls to the token endpoint
         queries |-> 0,        \* calls to the store
         storeResult |-> "",   \* ok, notok, throws
         providers |-> <<>>,   \* what queryProviders returned
         uniqueIds |-> <<>>,
         centerHash |-> <<>>,
         geohashes |-> <<>>,   \* what getGeohashNeighbors returned
         query |-> <<>>,       \* <<structuredQuery>> once it is sent
         pushes |-> <<>>,      \* recipient lists sent to the push gateway
         pushResult |-> "",    \* ok, notok, throws
         resp |-> NoResponse]

\* expires_in values the token endpoint grants
Lifetimes == {150, 450, 3600}

\* faulty variant: the safety margin is compared with >=
cachedTokenValidAtMargin(cache, now) ==
    cache # <<>> /\ cache[1].expiresAt >= now + Margin

\* cachedToken && cachedToken.expiresAt > now + 300
cachedTokenValid(cache, now) ==
    cache # <<>> /\ cache[1].expiresAt > now + Margin

\* faulty variant: only the location is required
missingLocationOnly(body) ==
    FalsyNumber(body.latitude) \/ FalsyNumber(body.longitude)

\* !service || !userLocation?.latitude || !userLocation?.longitude
missingRequired(body) ==
    FalsyString(body.service) \/ FalsyNumber(body.latitude)
        \/ FalsyNumber(body.longitude)

\* the handler returns: its token locals, its keys and its query are gone,
\* the response and the record of its calls remain
respond(s, resp) ==
    [s EXCEPT !.pc = "done", !.resp = resp,
              !.now = 0, !.seen = <<>>, !.token = NoToken, !.left = 0,
              !.centerHash = <<>>, !.geohashes = <<>>, !.query = <<>>]

\* faulty variant: the catch block ends the invocation without a response
caughtSilently(s, msg) == [s EXCEPT !.pc = "done"]

\* the catch block of the handler
caught(s, msg) == respond(s, internalError(msg))

\* queryProviders once it holds a token: the runQuery call is issued
queryIssued(s) ==
    [s EXCEPT !.pc = "querying", !.queries = @ + 1,
              !.query = <<structuredQuery(s.geohashes, s.body.service[1])>>]

\* faulty variant: the pair is encoded whether or not the body carries a key
centerHashOfPair(body) ==
    encodeGeohash(Degrees(body.latitude[1]), Degrees(body.longitude[1]), 7)

\* clientGeohash || encodeGeohash(userLocation.latitude, userLocation.longitude, 7)
centerHashOf(body) ==
    IF body.geohash # <<>> /\ body.geohash[1] # <<>>
    THEN body.geohash[1]
    ELSE encodeGeohash(Degrees(body.latitude[1]), Degrees(body.longitude[1]), 7)

\* centerHash and geohashes of the handler, for the bodies that pass the
\* validation
expanded ==
    [body \in { b \in Bodies : b.json /\ ~missingRequired(b) } |->
        LET centerHash == centerHashOf(body)
        IN  [centerHash |-> centerHash, geohashes |-> getGeohashNeighbors(centerHash)]]

\* the handler from the validation to the call of queryProviders
located(s) ==
    [s EXCEPT !.centerHash = expanded[s.body].centerHash,
              !.geohashes = expanded[s.body].geohashes]

\* sendPush up to its await: nothing is sent to an empty list
sendPush(s, playerIds) ==
    IF Len(playerIds) = 0
    THEN respond(s, success(Len(playerIds)))
    ELSE [s EXCEPT !.pc = "pushing", !.pushes = Append(@, playerIds)]

\* faulty variant: the handler and sendPush push without looking at the list
notifiedUnguarded(s, providers) ==
    LET uniqueIds == uniqueIdsOf(playerIdsOf(providers))
    IN  [s EXCEPT !.providers = providers, !.uniqueIds = uniqueIds,
                  !.pc = "pushing", !.pushes = Append(@, uniqueIds)]

\* the handler from the return of queryProviders to its next await
notified(s, providers) ==
    LET uniqueIds == uniqueIdsOf(playerIdsOf(providers))
        t == [s EXCEPT !.providers = providers, !.uniqueIds = uniqueIds]
    IN  IF Len(uniqueIds) = 0
        THEN respond(t, noProviders)
        ELSE sendPush(t, uniqueIds)

(***************************************************************************)
(* Calls of the geohash functions on their own.  The points are the range  *)
(* bounds, midpoints of the first bisections, a point inside a cell and    *)
(* the corner of a cell of precision 7; the keys are keys a client may     *)
(* send (empty, short, with characters outside the alphabet, at the edges  *)
(* of the world) and the keys of the points.                               *)
(***************************************************************************)
NoCall == [op |-> "none", pc |-> "returned", lat |-> 0, lon |-> 0, precision |-> 0,
           center |-> <<>>, hash |-> <<>>, neighbors |-> <<>>]

encodeCall(lat, lon, precision) ==
    [NoCall EXCEPT !.op = "encodeGeohash", !.pc = "called", !.lat = lat, !.lon = lon,
                   !.precision = precision]

neighborsCall(center) ==
    [NoCall EXCEPT !.op = "getGeohashNeighbors", !.pc = "called", !.center = center]

centerCall(hash) ==
    [NoCall EXCEPT !.op = "approximateCenter", !.pc = "called", !.center = hash]

Latitudes == { Degrees(-90), Degrees(-45), Degrees(0), Degrees(45), Degrees(90),
               Downtown.lat, boundsOf(DowntownKey).latMax, 1 }
Longitudes == { Degrees(-180), Degrees(-90), Degrees(0), Degrees(90), Degrees(180),
                Downtown.lon, boundsOf(DowntownKey).lonMin }
Precisions == 1..7

ClientKeys == { <<>>,
                <<"9">>,
                <<"9", "q", "8", "y">>,
                <<"9", "Q", "8", "Y">>,
                <<"9", "q", "8", "y", "y">>,
                <<"A", "A", "A", "A", "A">>,
                <<"9", "q", "8", "y", "y", "k">>,
                DowntownKey,
                UpperCaseKey,
                <<"z", "z", "z", "z", "z", "z", "z">>,
                <<"0", "0", "0", "0", "0", "0", "0">>,
                FarKey }

PointKeys == { encodeGeohash(lat, lon, p) :
                   lat \in Latitudes, lon \in Longitudes, p \in Precisions }

(***************************************************************************)
(* Initial states.  Init is the process with concurrent invocations of two *)
(* requests over one store content, InitStore one valid request over every *)
(* store content, InitRequest one request of every kind.                   *)
(***************************************************************************)
InitProcess ==
    /\ clock = 0
    /\ cachedToken = <<>>
    /\ issued = 0
    /\ req = [r \in Requests |-> Idle]
    /\ geo = NoCall

Init ==
    /\ InitProcess
    /\ store = <<DocRow(<<"a">>, Undefined), DocRow(Undefined, <<"a">>),
                 DocRow(Undefined, <<"b">>)>>
    /\ clients = FewCalls
    /\ budget = NumRequests

InitStore ==
    /\ InitProcess
    /\ store \in AllStores
    /\ clients = { Call("POST", ValidBody) }
    /\ budget = 1

InitRequest ==
    /\ InitProcess
    /\ store \in FewStores
    /\ clients = AllCalls
    /\ budget = 1

\* two invocations, the one that arrives first and one that arrives after
\* it: valid requests, requests without a latitude and requests of another
\* method, over a store of one provider
InitPair ==
    /\ InitProcess
    /\ store = <<DocRow(<<"a">>, Undefined)>>
    /\ clients = FewCalls \union { Call("GET", NoBody) }
    /\ budget = 2

(***************************************************************************)
(* The handler, from the arrival of a request to its first await.          *)
(***************************************************************************)
\* getAccessToken up to its first await, called by queryProviders
getAccessToken(s) ==
    LET t == [s EXCEPT !.now = clock, !.seen = cachedToken]
    IN  IF cachedTokenValid(cachedToken, clock)
        THEN queryIssued([t EXCEPT !.token = cachedToken[1].token,
                                   !.left = cachedToken[1].token.exp - clock,
                                   !.tokenResult = "cached"])
        ELSE [t EXCEPT !.pc = "signing"]

\* faulty variant: the body is read before the method is looked at
fetchReadsBodyFirst(r) ==
    /\ req[r].pc = "idle"
    /\ \A q \in 1..(r - 1) : req[q].pc # "idle"
    /\ budget > 0
    /\ budget' = budget - 1
    /\ \E c \in clients :
         LET s == [Idle EXCEPT !.method = c.method, !.body = c.body]
         IN  req' = [req EXCEPT ![r] =
                 IF ~c.body.json
                 THEN caught(s, "Unexpected token")
                 ELSE IF c.method # "POST"
                 THEN respond(s, methodNotAllowed)
                 ELSE IF missingRequired(c.body)
                 THEN respond(s, missingFields)
                 ELSE getAccessToken(located(s))]
    /\ UNCHANGED <<geo, clock, cachedToken, issued, store, clients>>

fetch(r) ==
    /\ req[r].pc = "idle"
    /\ \A q \in 1..(r - 1) : req[q].pc # "idle"    \* slots are taken in order
    /\ budget > 0
    /\ budget' = budget - 1
    /\ \E c \in clients :
         LET s == [Idle EXCEPT !.method = c.method, !.body = c.body]
         IN  req' = [req EXCEPT ![r] =
                 IF c.method # "POST"
                 THEN respond(s, methodNotAllowed)
                 ELSE IF ~c.body.json
                 THEN caught(s, "Unexpected token")
                 ELSE IF missingRequired(c.body)
                 THEN respond(s, missingFields)
                 ELSE getAccessToken(located(s))]
    /\ UNCHANGED <<geo, clock, cachedToken, issued, store, clients>>

(***************************************************************************)
(* getAccessToken: signing, then the token exchange.                       *)
(***************************************************************************)
\* faulty variant: the store query is sent along with the token request
signedQueriesFirst(r) ==
    /\ req[r].pc = "signing"
    /\ req' = [req EXCEPT ![r] = [@ EXCEPT !.pc = "exchanging", !.exchanges = @ + 1,
                                           !.queries = @ + 1]]
    /\ UNCHANGED <<geo, clock, cachedToken, issued, store, clients, budget>>

\* faulty variant: signing waits while another invocation awaits the endpoint
signedWhenNoneExchanging(r) ==
    /\ req[r].pc = "signing"
    /\ \A q \in Requests \ {r} : req[q].pc # "exchanging"
    /\ req' = [req EXCEPT ![r] = [@ EXCEPT !.pc = "exchanging", !.exchanges = @ + 1]]
    /\ UNCHANGED <<geo, clock, cachedToken, issued, store, clients, budget>>

\* importKey and sign resolve: the token request is sent
signed(r) ==
    /\ req[r].pc = "signing"
    /\ req' = [req EXCEPT ![r] = [@ EXCEPT !.pc = "exchanging", !.exchanges = @ + 1]]
    /\ UNCHANGED <<geo, clock, cachedToken, issued, store, clients, budget>>

\* importKey or sign rejects (a private key that does not import)
signFails(r) ==
    /\ req[r].pc = "signing"
    /\ req' = [req EXCEPT ![r] = caught([@ EXCEPT !.tokenResult = "signfail"],
                                         "key import failed")]
    /\ UNCHANGED <<geo, clock, cachedToken, issued, store, clients, budget>>

\* faulty variant: the cache records the hour the assertion asked for, not
\* the lifetime the endpoint granted
tokenGrantedAssumesHour(r) ==
    /\ req[r].pc = "exchanging"
    /\ \E expires_in \in Lifetimes :
         LET access_token == Token(issued + 1, clock + expires_in)
         IN  /\ issued' = issued + 1
             /\ cachedToken' = <<[token |-> access_token,
                                  expiresAt |-> req[r].now + 3600]>>
             /\ req' = [req EXCEPT ![r] =
                    queryIssued([@ EXCEPT !.token = access_token,
                                          !.left = expires_in,
                                          !.tokenResult = "ok"])]
    /\ UNCHANGED <<geo, clock, store, clients, budget>>

\* the endpoint answers 200 with a token and its lifetime
tokenGranted(r) ==
    /\ req[r].pc = "exchanging"
    /\ \E expires_in \in Lifetimes :
         LET access_token == Token(issued + 1, clock + expires_in)
         IN  /\ issued' = issued + 1
             /\ cachedToken' = <<[token |-> access_token,
                                  expiresAt |-> req[r].now + expires_in]>>
             /\ req' = [req EXCEPT ![r] =
                    queryIssued([@ EXCEPT !.token = access_token,
                                          !.left = expires_in,
                                          !.tokenResult = "ok"])]
    /\ UNCHANGED <<geo, clock, store, clients, budget>>

\* faulty variant: a refused exchange goes on to the query without a token
tokenRefusedIgnored(r) ==
    /\ req[r].pc = "exchanging"
    /\ req' = [req EXCEPT ![r] = queryIssued([@ EXCEPT !.tokenResult = "notok"])]
    /\ UNCHANGED <<geo, clock, cachedToken, issued, store, clients, budget>>

\* faulty variant: a refused exchange empties the cache
tokenRefusedClearsCache(r) ==
    /\ req[r].pc = "exchanging"
    /\ req' = [req EXCEPT ![r] = caught([@ EXCEPT !.tokenResult = "notok"],
                                         "Token request failed")]
    /\ cachedToken' = <<>>
    /\ UNCHANGED <<geo, clock, issued, store, clients, budget>>

\* the endpoint answers with a status that is not ok
tokenRefused(r) ==
    /\ req[r].pc = "exchanging"
    /\ req' = [req EXCEPT ![r] = caught([@ EXCEPT !.tokenResult = "notok"],
                                         "Token request failed")]
    /\ UNCHANGED <<geo, clock, cachedToken, issued, store, clients, budget>>

\* fetch rejects, or res.json() does on a body that is not JSON
tokenThrows(r) ==
    /\ req[r].pc = "exchanging"
    /\ req' = [req EXCEPT ![r] = caught([@ EXCEPT !.tokenResult = "throws"],
                                         "network error")]
    /\ UNCHANGED <<geo, clock, cachedToken, issued, store, clients, budget>>

(***************************************************************************)
(* queryProviders: the answer of the store.                                *)
(***************************************************************************)
queryAnswered(r) ==
    /\ req[r].pc = "querying"
    /\ \E docs \in { documentsOf(runQuery(req[r].query[1], store)) } :
         req' = [req EXCEPT ![r] = notified([@ EXCEPT !.storeResult = "ok"], docs)]
    /\ UNCHANGED <<geo, clock, cachedToken, issued, store, clients, budget>>

\* !res.ok: logged, and queryProviders returns []
queryRefused(r) ==
    /\ req[r].pc = "querying"
    /\ req' = [req EXCEPT ![r] = notified([@ EXCEPT !.storeResult = "notok"], <<>>)]
    /\ UNCHANGED <<geo, clock, cachedToken, issued, store, clients, budget>>

\* fetch rejects, or res.json() does, or the body is no array
queryThrows(r) ==
    /\ req[r].pc = "querying"
    /\ req' = [req EXCEPT ![r] = caught([@ EXCEPT !.storeResult = "throws"],
                                         "network error")]
    /\ UNCHANGED <<geo, clock, cachedToken, issued, store, clients, budget>>

(***************************************************************************)
(* sendPush: the answer of the push gateway.                               *)
(***************************************************************************)
pushAnswered(r) ==
    /\ req[r].pc = "pushing"
    /\ \E result \in {"ok", "notok"} :
         req' = [req EXCEPT ![r] =
             respond([@ EXCEPT !.pushResult = result],
                     success(Len(req[r].uniqueIds)))]
    /\ UNCHANGED <<geo, clock, cachedToken, issued, store, clients, budget>>

\* faulty variant: a rejected push call is sent again
pushThrowsResends(r) ==
    /\ req[r].pc = "pushing"
    /\ req' = [req EXCEPT ![r] = [@ EXCEPT !.pushResult = "throws",
                                           !.pushes = Append(@, req[r].uniqueIds)]]
    /\ UNCHANGED <<geo, clock, cachedToken, issued, store, clients, budget>>

\* fetch rejects
pushThrows(r) ==
    /\ req[r].pc = "pushing"
    /\ req' = [req EXCEPT ![r] = caught([@ EXCEPT !.pushResult = "throws"],
                                         "network error")]
    /\ UNCHANGED <<geo, clock, cachedToken, issued, store, clients, budget>>

\* time passes
Tick ==
    /\ clock < MaxTicks * ClockStep
    /\ clock' = clock + ClockStep
    /\ UNCHANGED <<geo, cachedToken, issued, store, clients, budget, req>>

Next ==
    \/ Tick
    \/ \E r \in Requests :
         \/ fetch(r)
         \/ signed(r)
         \/ signFails(r)
         \/ tokenGranted(r)
         \/ tokenRefused(r)
         \/ tokenThrows(r)
         \/ queryAnswered(r)
         \/ queryRefused(r)
         \/ queryThrows(r)
         \/ pushAnswered(r)
         \/ pushThrows(r)

Spec == Init /\ [][Next]_vars

SpecStore == InitStore /\ [][Next]_vars

SpecRequest == InitRequest /\ [][Next]_vars

SpecPair == InitPair /\ [][Next]_vars

(***************************************************************************)
(* Every external call eventually returns or throws: an invocation that    *)
(* awaits a call is not left waiting for ever.                             *)
(***************************************************************************)
\* the call invocation r awaits returns or throws
returns(r) ==
    \/ signed(r) \/ signFails(r)
    \/ tokenGranted(r) \/ tokenRefused(r) \/ tokenThrows(r)
    \/ queryAnswered(r) \/ queryRefused(r) \/ queryThrows(r)
    \/ pushAnswered(r) \/ pushThrows(r)

SpecLive == InitRequest /\ [][Next]_vars /\ \A r \in Requests : WF_vars(returns(r))

(***************************************************************************)
(* A collaborator may stay silent for ever: only the awaits the runtime    *)
(* settles by itself (importKey, sign) are sure to settle.  No fetch call  *)
(* of the code carries a signal or a timer, so no step of the handler is   *)
(* taken while a collaborator is silent.                                   *)
(***************************************************************************)
\* importKey and sign settle
proceeds(r) == signed(r) \/ signFails(r)

\* the calls of the first invocation may stay unanswered for ever, the calls
\* of the invocations that arrive after it return or throw
SpecOthers == InitPair /\ [][Next]_vars /\ \A r \in Requests \ {1} : WF_vars(returns(r))

SpecSilent == InitRequest /\ [][Next]_vars /\ \A r \in Requests : WF_vars(proceeds(r))

(***************************************************************************)
(* One call of encodeGeohash or of getGeohashNeighbors, outside a request. *)
(***************************************************************************)
InitGeo ==
    /\ clock = 0
    /\ cachedToken = <<>>
    /\ issued = 0
    /\ req = [r \in Requests |-> Idle]
    /\ store = <<>>
    /\ clients = {}
    /\ budget = 0
    /\ geo \in { encodeCall(lat, lon, p) :
                     lat \in Latitudes, lon \in Longitudes, p \in Precisions }
                \union { neighborsCall(k) : k \in ClientKeys \union PointKeys }
                \union { centerCall(k) : k \in (ClientKeys \union PointKeys) \ {<<>>} }

encodeReturns ==
    /\ geo.op = "encodeGeohash"
    /\ geo.pc = "called"
    /\ geo' = [geo EXCEPT !.pc = "returned",
                          !.hash = encodeGeohash(geo.lat, geo.lon, geo.precision)]
    /\ UNCHANGED <<clock, cachedToken, issued, store, clients, budget, req>>

neighborsReturn ==
    /\ geo.op = "getGeohashNeighbors"
    /\ geo.pc = "called"
    /\ geo' = [geo EXCEPT !.pc = "returned",
                          !.neighbors = getGeohashNeighbors(geo.center)]
    /\ UNCHANGED <<clock, cachedToken, issued, store, clients, budget, req>>

centerReturns ==
    /\ geo.op = "approximateCenter"
    /\ geo.pc = "called"
    /\ geo' = [geo EXCEPT !.pc = "returned",
                          !.lat = approximateCenter(geo.center).lat,
                          !.lon = approximateCenter(geo.center).lon]
    /\ UNCHANGED <<clock, cachedToken, issued, store, clients, budget, req>>

\* the first turn of the loop of getGeohashNeighbors, offset [0, 0]: the
\* center approximateCenter returned is encoded at the length of the key
encodeCenter ==
    /\ geo.op = "approximateCenter"
    /\ geo.pc = "returned"
    /\ geo' = [geo EXCEPT !.op = "encodeGeohash", !.pc = "called",
                          !.lat = geo.lat + offsets[1][1],
                          !.lon = geo.lon + offsets[1][2],
                          !.precision = Len(geo.center)]
    /\ UNCHANGED <<clock, cachedToken, issued, store, clients, budget, req>>

NextGeo == encodeReturns \/ neighborsReturn \/ centerReturns \/ encodeCenter

SpecGeo == InitGeo /\ [][NextGeo]_vars

(***************************************************************************)
(* Helpers of the properties.                                              *)
(***************************************************************************)
\* getAccessToken was called by invocation r
Called(r) == req[r].pc \in {"signing", "exchanging"} \/ req[r].tokenResult # ""

\* invocation r holds the token getAccessToken returned to it
Holds(r) == req[r].pc \in {"querying", "pushing"}

Blank(id) == \A i \in 1..Len(id) : id[i] = Space

\* the distinct non-blank identifiers of the documents in the store
ValidIds ==
    { id \in { playerIdOf(store[i].document[1]) :
                 i \in { j \in 1..Len(store) : store[j].document # <<>> } } :
        id # Undefined /\ ~Blank(id) }

NoDuplicates(s) == \A i, j \in 1..Len(s) : s[i] = s[j] => i = j

(***************************************************************************)
(* C1.  Single flight: token exchanges of interleaved getAccessToken calls *)
(* are never in flight together; at most one exchange is awaited at a time.*)
(***************************************************************************)
SingleFlight ==
    \A r1, r2 \in Requests :
        req[r1].pc = "exchanging" /\ req[r2].pc = "exchanging" => r1 = r2

(***************************************************************************)
(* C2.  Every token getAccessToken returns has, when it is returned, more  *)
(* than 300 seconds left before its true expiry (completion of the         *)
(* exchange + granted lifetime), cached or fresh.                          *)
(***************************************************************************)
ReturnedTokenOutsideMargin ==
    \A r \in Requests : Holds(r) => req[r].left > Margin

(***************************************************************************)
(* C3.  Cache contract: a cached token whose recorded expiry is more than  *)
(* 300 seconds after now is returned as it is with no exchange; in every   *)
(* other case a token is returned only after one exchange.                 *)
(***************************************************************************)
CacheContract ==
    \A r \in Requests :
        LET s == req[r]
            fresh == s.seen # <<>> /\ s.seen[1].expiresAt > s.now + Margin
        IN  /\ s.pc \in {"signing", "exchanging"} => ~fresh /\ s.token = NoToken
            /\ Holds(r) /\ fresh => /\ s.tokenResult = "cached"
                                    /\ s.token = s.seen[1].token
                                    /\ s.exchanges = 0
            /\ Holds(r) /\ ~fresh => /\ s.tokenResult = "ok"
                                     /\ s.token # NoToken
                                     /\ s.exchanges = 1
            /\ s.tokenResult = "cached" => s.exchanges = 0

CacheContractWitness ==
    \E r1, r2 \in Requests :
        /\ req[r1].tokenResult = "ok" /\ req[r1].exchanges = 1
        /\ Holds(r2)
        /\ req[r2].tokenResult = "cached" /\ req[r2].exchanges = 0
        /\ req[r2].token = cachedToken[1].token /\ req[r2].queries = 1

(***************************************************************************)
(* C4.  A failed store query (not ok, or thrown) is answered 200           *)
(* no_providers with notified 0 and no push call.                          *)
(***************************************************************************)
StoreFailureSwallowed ==
    \A r \in Requests :
        req[r].storeResult \in {"notok", "throws"} =>
            /\ req[r].pc = "done"
            /\ req[r].resp = noProviders
            /\ req[r].pushes = <<>>

(***************************************************************************)
(* C5.  A failed push call (not ok, or thrown) for a non-empty batch is    *)
(* still answered 200 success with notified the size of the batch.         *)
(***************************************************************************)
PushFailureKeepsOutcome ==
    \A r \in Requests :
        req[r].pushResult \in {"notok", "throws"} =>
            /\ req[r].resp.code = 200
            /\ req[r].resp.status = "success"
            /\ req[r].resp.notified = Len(req[r].pushes[1])

(***************************************************************************)
(* C6.  When the token exchange fails, getAccessToken returns no token and *)
(* the request is answered 500 with no store query and no push call.       *)
(***************************************************************************)
TokenFailureIs500 ==
    \A r \in Requests :
        req[r].tokenResult \in {"notok", "throws", "signfail"} =>
            /\ req[r].pc = "done"
            /\ req[r].resp.code = 500
            /\ req[r].resp.error = "Internal server error"
            /\ req[r].queries = 0
            /\ req[r].pushes = <<>>

TokenFailureIs500Witness ==
    \E r \in Requests :
        /\ req[r].tokenResult = "notok"
        /\ req[r].exchanges = 1
        /\ req[r].resp = internalError("Token request failed")

(***************************************************************************)
(* C7.  No push call carries an empty recipient list, and a request whose  *)
(* extracted recipients are none makes no push call.                       *)
(***************************************************************************)
NoEmptyPush ==
    \A r \in Requests :
        /\ \A i \in 1..Len(req[r].pushes) : Len(req[r].pushes[i]) > 0
        /\ (req[r].storeResult = "ok" /\ ValidIds = {} => req[r].pushes = <<>>)

NoEmptyPushWitness ==
    \E r \in Requests :
        /\ req[r].storeResult = "ok"
        /\ req[r].providers # <<>>
        /\ ValidIds = {}
        /\ req[r].pc = "done"
        /\ req[r].pushes = <<>>

(***************************************************************************)
(* C8.  The recipient list of a push call has no duplicate and no          *)
(* undefined, empty or blank identifier: it lists exactly the distinct     *)
(* non-blank identifiers of the documents the store returned.              *)
(***************************************************************************)
PushListIsDistinctValidIds ==
    \A r \in Requests :
        \A i \in 1..Len(req[r].pushes) :
            LET ids == req[r].pushes[i]
            IN  /\ NoDuplicates(ids)
                /\ \A k \in 1..Len(ids) : ids[k] # Undefined /\ ~Blank(ids[k])
                /\ Elems(ids) = ValidIds

PushListIsDistinctValidIdsWitness ==
    \E r \in Requests :
        /\ store = <<DocRow(<<"a">>, Undefined), DocRow(Undefined, <<"a">>),
                     DocRow(<<>>, <<"b">>)>>
        /\ req[r].pushes = << << <<"a">>, <<"b">> >> >>

(***************************************************************************)
(* C9.  A request whose store query returned documents is answered 200     *)
(* with notified the number of distinct valid identifiers in them, and     *)
(* no_providers exactly when that number is 0, success otherwise.          *)
(***************************************************************************)
ResponseCountsRecipients ==
    \A r \in Requests :
        req[r].pc = "done" /\ req[r].storeResult = "ok" =>
            /\ req[r].resp.code = 200
            /\ req[r].resp.notified = Cardinality(ValidIds)
            /\ req[r].resp.status =
                   IF Cardinality(ValidIds) = 0 THEN "no_providers" ELSE "success"

(***************************************************************************)
(* C10.  A POST whose body lacks service, latitude or longitude is         *)
(* answered 400 "Missing required fields" and makes no token exchange, no  *)
(* store query and no push call.                                           *)
(***************************************************************************)
MissingFieldsIs400 ==
    \A r \in Requests :
        LET s == req[r]
        IN  /\ s.pc # "idle" /\ s.method = "POST" /\ s.body.json
            /\ (s.body.service = <<>> \/ s.body.latitude = <<>>
                    \/ s.body.longitude = <<>>)
            => /\ s.pc = "done"
               /\ s.resp = missingFields
               /\ ~Called(r)
               /\ s.exchanges = 0 /\ s.queries = 0 /\ s.pushes = <<>>

MissingFieldsIs400Witness ==
    \E r \in Requests :
        /\ req[r].method = "POST"
        /\ req[r].body = Body(<<"tow">>, <<>>, <<-122>>, <<>>)
        /\ req[r].resp.code = 400
        /\ req[r].resp.error = "Missing required fields"

(***************************************************************************)
(* Helpers of the request properties.                                      *)
(***************************************************************************)
\* the body carries a key: clientGeohash is truthy
HasKey(body) == body.geohash # <<>> /\ body.geohash[1] # <<>>

\* the body carries a service type
HasService(body) == body.service # <<>> /\ body.service[1] # ""

\* invocation r serves a POST whose body parsed
Parsed(r) == req[r].pc # "idle" /\ req[r].method = "POST" /\ req[r].body.json

\* the documents of the collection whose push identifier is id
ProvidersOf(id) ==
    { store[k].document[1] :
        k \in { j \in 1..Len(store) :
                  /\ store[j].document # <<>>
                  /\ playerIdOf(store[j].document[1]) = id } }


(***************************************************************************)
(* C11.  A POST with a service type and a key but no latitude and          *)
(* longitude passes the validation and goes on to the expansion of its     *)
(* key; 400 is answered only when the service type is missing or both the  *)
(* key and the pair are.                                                   *)
(***************************************************************************)
KeyOrPairSuffices ==
    \A r \in Requests :
        LET s == req[r]
        IN  Parsed(r) =>
              /\ HasService(s.body) /\ HasKey(s.body) =>
                     /\ s.resp.code # 400
                     /\ s.pc # "done" => s.centerHash = s.body.geohash[1]
              /\ s.resp.code = 400 =>
                     \/ ~HasService(s.body)
                     \/ /\ ~HasKey(s.body)
                        /\ (s.body.latitude = <<>> \/ s.body.longitude = <<>>)

(***************************************************************************)
(* C12.  A POST without a key whose latitude is outside [-90, 90] or whose *)
(* longitude is outside [-180, 180] is answered 400: it is not encoded     *)
(* into a key and no store query is made for it.                           *)
(***************************************************************************)
OutOfRangeIs400 ==
    \A r \in Requests :
        LET s == req[r]
        IN  /\ Parsed(r) /\ HasService(s.body) /\ ~HasKey(s.body)
            /\ s.body.latitude # <<>> /\ s.body.longitude # <<>>
            /\ \/ s.body.latitude[1] < -90 \/ s.body.latitude[1] > 90
               \/ s.body.longitude[1] < -180 \/ s.body.longitude[1] > 180
            => /\ s.pc = "done"
               /\ s.resp.code = 400
               /\ s.centerHash = <<>>
               /\ s.queries = 0

(***************************************************************************)
(* C13.  The query sent to the store conjoins a filter of the provider key *)
(* IN the expanded keys, a filter of the requested service and a filter of *)
(* the availability, so every recipient of a push belongs to a provider    *)
(* whose key is one of the expanded keys and who offers the service.       *)
(***************************************************************************)
RecipientsMatchRequest ==
    \A r \in Requests :
        LET s == req[r]
            where == s.query[1].where
        IN  /\ s.query # <<>> =>
                /\ \E i \in 1..Len(where) :
                       /\ where[i].field = "geohash" /\ where[i].op = "IN"
                       /\ where[i].value = s.geohashes
                /\ \E i \in 1..Len(where) :
                       /\ where[i].field = "servicesOffered"
                       /\ where[i].value = s.body.service[1]
                /\ \E i \in 1..Len(where) : where[i].field = "acceptingRequests"
            /\ s.pc = "pushing" =>
                 \A i \in 1..Len(s.pushes) : \A j \in 1..Len(s.pushes[i]) :
                   \E p \in ProvidersOf(s.pushes[i][j]) :
                       /\ p.geohash \in Elems(s.geohashes)
                       /\ s.body.service[1] \in Elems(p.servicesOffered)

Expanded == geo.op = "getGeohashNeighbors" /\ geo.pc = "returned"

\* a call of encodeGeohash that has returned
Encoded == geo.op = "encodeGeohash" /\ geo.pc = "returned"

\* every character of the key is in the alphabet
InAlphabet(key) == \A i \in 1..Len(key) : indexOf(key[i]) >= 0

\* the cells of a and b are distinct and share an edge or a corner
Adjacent(a, b) ==
    LET ra == boundsOf(a)
        rb == boundsOf(b)
    IN  /\ Len(a) = Len(b)
        /\ ra # rb
        /\ ra.latMin <= rb.latMax /\ rb.latMin <= ra.latMax
        /\ ra.lonMin <= rb.lonMax /\ rb.lonMin <= ra.lonMax

\* the keys of the cell of key and of the cells around it
Block(key) ==
    LET b == boundsOf(key)
        c == approximateCenter(key)
    IN  { encodeGeohash(c.lat + dLat * (b.latMax - b.latMin),
                        c.lon + dLon * (b.lonMax - b.lonMin), Len(key)) :
              dLat \in {-1, 0, 1}, dLon \in {-1, 0, 1} }

(***************************************************************************)
(* C15.  For every center key of length 5 or more, keys that encodeGeohash *)
(* never produces included, the list getGeohashNeighbors returns contains  *)
(* the center key.                                                         *)
(***************************************************************************)
CenterIsIncluded ==
    Expanded /\ Len(geo.center) >= 5 => geo.center \in Elems(geo.neighbors)

CenterIsIncludedWitness ==
    /\ Expanded
    /\ geo.center = <<"A", "A", "A", "A", "A">>
    /\ geo.center \in Elems(geo.neighbors)
    /\ Len(geo.neighbors) > 1

(***************************************************************************)
(* C16.  For every input key the list getGeohashNeighbors returns has      *)
(* between 1 and 9 elements and no key twice.                              *)
(***************************************************************************)
NeighborCountInRange ==
    Expanded => /\ Len(geo.neighbors) >= 1
                /\ Len(geo.neighbors) <= 9
                /\ NoDuplicates(geo.neighbors)

(***************************************************************************)
(* C17.  Every key getGeohashNeighbors returns besides the center is the   *)
(* key of a cell that shares an edge or a corner with the cell of the      *)
(* center, at the precision of the center; for a center of precision 7     *)
(* the list holds the keys of all the cells around the center's.           *)
(***************************************************************************)
NeighborsAreAdjacent ==
    Expanded /\ InAlphabet(geo.center) /\ Len(geo.center) >= 5 =>
        /\ \A i \in 1..Len(geo.neighbors) :
               geo.neighbors[i] # geo.center => Adjacent(geo.neighbors[i], geo.center)
        /\ Len(geo.center) = 7 => Block(geo.center) \subseteq Elems(geo.neighbors)

(***************************************************************************)
(* C18.  For an empty key or a key of fewer than 5 characters              *)
(* getGeohashNeighbors returns the list of that key alone: nothing is      *)
(* decoded or encoded.                                                     *)
(***************************************************************************)
ShortKeyReturnsItself ==
    Expanded /\ Len(geo.center) < 5 => geo.neighbors = <<geo.center>>

ShortKeyReturnsItselfWitness ==
    /\ Expanded
    /\ geo.center = <<"9", "Q", "8", "Y">>
    /\ geo.neighbors = <<geo.center>>

(***************************************************************************)
(* C19.  Round trip: for every point of the grid, range bounds and         *)
(* bisection midpoints included, and every precision from 1 on, the        *)
(* rectangle the key encodeGeohash returns decodes to contains the point.  *)
(***************************************************************************)
RoundTripContainsPoint ==
    Encoded =>
        LET b == boundsOf(geo.hash)
        IN  /\ Len(geo.hash) = geo.precision
            /\ b.latMin <= geo.lat /\ geo.lat <= b.latMax
            /\ b.lonMin <= geo.lon /\ geo.lon <= b.lonMax

RoundTripContainsPointWitness ==
    /\ Encoded
    /\ geo.lat = Degrees(45)
    /\ geo.lon = Degrees(-180)
    /\ geo.precision = 7
    /\ boundsOf(geo.hash).latMax = geo.lat
    /\ boundsOf(geo.hash).lonMin = geo.lon

(***************************************************************************)
(* C20.  Every POST invocation produces exactly one response, an error     *)
(* (400 or 500 with an error body), no_providers (200) or success (200);   *)
(* when every external call returns or throws, an invocation always comes  *)
(* to its response.                                                        *)
(***************************************************************************)
IsOutcome(resp) ==
    \/ resp.code \in {400, 500} /\ resp.error # "" /\ resp.status = ""
    \/ resp.code = 200 /\ resp.status = "no_providers"
    \/ resp.code = 200 /\ resp.status = "success"

EveryPostIsAnswered ==
    /\ [](\A r \in Requests :
             req[r].pc = "done" /\ req[r].method = "POST" => IsOutcome(req[r].resp))
    /\ [][\A r \in Requests : req[r].pc = "done" => req'[r] = req[r]]_vars
    /\ \A r \in Requests : (req[r].pc # "idle") ~> (req[r].pc = "done")

EveryPostIsAnsweredWitness ==
    \E r \in Requests :
        /\ req[r].pc = "done"
        /\ req[r].method = "POST"
        /\ req[r].pushResult = "ok"
        /\ req[r].resp.status = "success"
        /\ IsOutcome(req[r].resp)

(***************************************************************************)
(* C21.  Every external call is bounded by a timeout: an invocation that   *)
(* awaits the token endpoint, the store or the push gateway comes to its   *)
(* response even when that collaborator never answers.                     *)
(***************************************************************************)
SilentCollaboratorIsTimedOut ==
    \A r \in Requests :
        (req[r].pc \in {"exchanging", "querying", "pushing"}) ~> (req[r].pc = "done")

(***************************************************************************)
(* C22.  A request whose method is not POST is answered 405: its body is   *)
(* not read, it makes no token exchange, no store query and no push call,  *)
(* and it leaves the credential cache as it is.                            *)
(***************************************************************************)
NonPostIs405 ==
    /\ [](\A r \in Requests :
             req[r].pc # "idle" /\ req[r].method # "POST" =>
                 /\ req[r].pc = "done"
                 /\ req[r].resp = methodNotAllowed
                 /\ ~Called(r)
                 /\ req[r].exchanges = 0 /\ req[r].queries = 0
                 /\ req[r].pushes = <<>>)
    /\ [][\A r \in Requests :
             req[r].pc = "idle" /\ req'[r].pc # "idle" /\ req'[r].method # "POST" =>
                 cachedToken' = cachedToken /\ issued' = issued]_vars

NonPostIs405Witness ==
    \E r \in Requests :
        /\ req[r].method = "GET"
        /\ ~req[r].body.json
        /\ req[r].resp.code = 405
        /\ cachedToken # <<>>

(***************************************************************************)
(* C23.  When the body carries a key, that key is the center of the        *)
(* expansion as it came, and the pair is not encoded; the center is the    *)
(* key encodeGeohash gives the pair only when the body carries no key.     *)
(***************************************************************************)
KeyIsUsedUnchanged ==
    \A r \in Requests :
        LET s == req[r]
        IN  Parsed(r) /\ s.pc # "done" =>
              /\ HasKey(s.body) => /\ s.centerHash = s.body.geohash[1]
                                   /\ s.geohashes[1] = s.body.geohash[1]
              /\ ~HasKey(s.body) =>
                     s.centerHash = encodeGeohash(Degrees(s.body.latitude[1]),
                                                  Degrees(s.body.longitude[1]), 7)

KeyIsUsedUnchangedWitness ==
    \E r \in Requests :
        /\ req[r].pc = "querying"
        /\ req[r].body.geohash = <<UpperCaseKey>>
        /\ req[r].centerHash = UpperCaseKey
        /\ req[r].centerHash # encodeGeohash(Degrees(req[r].body.latitude[1]),
                                             Degrees(req[r].body.longitude[1]), 7)

(***************************************************************************)
(* C24.  Within one request the push gateway is called at most once:       *)
(* after an answer that is not ok, a rejected call or a failed store query *)
(* no batch is sent again.                                                 *)
(***************************************************************************)
PushAtMostOnce ==
    \A r \in Requests :
        /\ Len(req[r].pushes) <= 1
        /\ req[r].pushResult # "" => req[r].pc = "done" /\ Len(req[r].pushes) = 1
        /\ req[r].storeResult \in {"notok", "throws"} => req[r].pushes = <<>>

PushAtMostOnceWitness ==
    \E r \in Requests :
        /\ req[r].pushResult = "throws"
        /\ req[r].pc = "done"
        /\ req[r].resp.code = 500
        /\ Len(req[r].pushes) = 1

(***************************************************************************)
(* C25.  Within one request the stages come in order and each at most      *)
(* once: the validation before any external call, the token before the     *)
(* store query, the answer of the store before a push call, the answer of  *)
(* the push gateway before the response; a stage is left out only on the   *)
(* way to an error response, by a token of the cache that stands for the   *)
(* exchange, or by an empty recipient list that sends nothing.             *)
(***************************************************************************)
\* the awaits that follow one another
StageOrder ==
    { <<"idle", "signing">>, <<"idle", "querying">>, <<"signing", "exchanging">>,
      <<"exchanging", "querying">>, <<"querying", "pushing">>, <<"pushing", "done">> }

StagesInOrder ==
    /\ [](\A r \in Requests :
             LET s == req[r]
             IN  /\ s.exchanges <= 1 /\ s.queries <= 1 /\ Len(s.pushes) <= 1
                 /\ Called(r) =>
                        s.method = "POST" /\ s.body.json /\ ~missingRequired(s.body)
                 /\ s.exchanges > 0 => Called(r)
                 /\ s.queries > 0 => s.tokenResult \in {"cached", "ok"}
                 /\ s.tokenResult = "ok" => s.exchanges = 1
                 /\ s.pushes # <<>> => s.queries = 1 /\ s.storeResult = "ok"
                 /\ s.pc # "done" => s.resp = NoResponse
                 /\ s.pc = "done" /\ s.pushes # <<>> => s.pushResult # "")
    /\ [][\A r \in Requests :
             req'[r].pc # req[r].pc =>
                 \/ <<req[r].pc, req'[r].pc>> \in StageOrder
                 \/ /\ req'[r].pc = "done"
                    /\ req'[r].resp.code \in {400, 405, 500}
                 \/ /\ req[r].pc = "querying"
                    /\ req'[r].pc = "done"
                    /\ req'[r].uniqueIds = <<>>
                    /\ req'[r].resp = noProviders]_vars

StagesInOrderWitness ==
    \E r1, r2 \in Requests :
        /\ req[r1].pc = "done" /\ req[r1].tokenResult = "ok"
        /\ req[r1].exchanges = 1 /\ req[r1].queries = 1
        /\ req[r1].pushResult = "ok" /\ req[r1].resp.status = "success"
        /\ req[r2].pc = "done" /\ req[r2].tokenResult = "cached"
        /\ req[r2].exchanges = 0 /\ req[r2].queries = 1
        /\ req[r2].pushResult = "ok" /\ req[r2].resp.status = "success"

(***************************************************************************)
(* C26.  Concurrent requests do not block one another: whatever call the   *)
(* other invocations wait on, an invocation takes its next step as soon as *)
(* its own call returns or throws, and while the first invocation waits    *)
(* for ever every later invocation comes to its response.                  *)
(***************************************************************************)
NoRequestBlocksAnother ==
    /\ [](\A r \in Requests :
             /\ req[r].pc = "signing" => ENABLED signed(r) /\ ENABLED signFails(r)
             /\ req[r].pc = "exchanging" =>
                    /\ ENABLED tokenGranted(r)
                    /\ ENABLED tokenRefused(r)
                    /\ ENABLED tokenThrows(r)
             /\ req[r].pc = "querying" =>
                    /\ ENABLED queryAnswered(r)
                    /\ ENABLED queryRefused(r)
                    /\ ENABLED queryThrows(r)
             /\ req[r].pc = "pushing" =>
                    ENABLED pushAnswered(r) /\ ENABLED pushThrows(r))
    /\ \A r \in Requests \ {1} : (req[r].pc # "idle") ~> (req[r].pc = "done")

NoRequestBlocksAnotherWitness ==
    \E r \in Requests \ {1} :
        /\ req[1].pc = "exchanging"
        /\ req[r].pc = "done"
        /\ req[r].tokenResult = "ok"
        /\ req[r].pushResult = "ok"
        /\ req[r].resp.status = "success"

(***************************************************************************)
(* C27.  Encoding is cell-stable: every point of the grid inside the cell  *)
(* of the key encodeGeohash returned for a point has that same key at that *)
(* precision, and the center approximateCenter gives for a key of the      *)
(* alphabet is encoded, at the length of the key, to that key.             *)
(***************************************************************************)
EncodingIsCellStable ==
    Encoded =>
        LET b == boundsOf(geo.hash)
        IN  /\ geo.center # <<>> /\ InAlphabet(geo.center) => geo.hash = geo.center
            /\ \A lat \in Latitudes, lon \in Longitudes :
                   /\ b.latMin < lat /\ lat < b.latMax
                   /\ b.lonMin < lon /\ lon < b.lonMax
                   => encodeGeohash(lat, lon, geo.precision) = geo.hash

EncodingIsCellStableWitness ==
    /\ Encoded
    /\ geo.center = DowntownKey
    /\ geo.hash = DowntownKey
    /\ geo.lat # Downtown.lat
    /\ encodeGeohash(Downtown.lat, Downtown.lon, geo.precision) = geo.hash

(***************************************************************************)
(* C28.  A failed token exchange leaves the credential cache as it was     *)
(* before the call: the cache never holds anything but a token the         *)
(* endpoint granted, and a call of getAccessToken that finds no valid      *)
(* token in it goes on to an exchange of its own.                          *)
(***************************************************************************)
FailedExchangeKeepsCache ==
    /\ [][\A r \in Requests :
             /\ req[r].pc \in {"signing", "exchanging"}
             /\ req'[r].tokenResult \in {"notok", "throws", "signfail"}
             => cachedToken' = cachedToken]_vars
    /\ [](cachedToken # <<>> => cachedToken[1].token.n \in 1..issued)
    /\ [](\A r \in Requests :
             Called(r) /\ ~cachedTokenValid(req[r].seen, req[r].now)
                 /\ req[r].pc # "done"
             => \/ req[r].pc = "signing"
                \/ req[r].exchanges = 1)

FailedExchangeKeepsCacheWitness ==
    \E r1, r2 \in Requests :
        /\ req[r1].tokenResult = "notok"
        /\ req[r1].resp.code = 500
        /\ req[r2].tokenResult = "ok"
        /\ Holds(r2)
        /\ cachedToken # <<>>
        /\ cachedToken[1].token = req[r2].token

(***************************************************************************)
(* C29.  The expiry the cache records is conservative: it is never later   *)
(* than the true expiry of the cached token (completion of its exchange +  *)
(* granted lifetime), because it counts from the now taken before the      *)
(* exchange was awaited; the token and the expiry of the cache are written *)
(* together, by the exchange that granted the token.                       *)
(***************************************************************************)
CachedExpiryIsConservative ==
    /\ [](cachedToken # <<>> => cachedToken[1].expiresAt <= cachedToken[1].token.exp)
    /\ [][cachedToken' # cachedToken =>
             \E r \in Requests :
                 /\ req[r].pc = "exchanging"
                 /\ req'[r].tokenResult = "ok"
                 /\ req[r].now <= clock
                 /\ req'[r].token.exp = clock + req'[r].left
                 /\ cachedToken' = <<[token |-> req'[r].token,
                                      expiresAt |-> req[r].now + req'[r].left]>>]_vars

CachedExpiryIsConservativeWitness ==
    /\ cachedToken # <<>>
    /\ cachedToken[1].expiresAt < cachedToken[1].token.exp
    /\ \E r \in Requests : Holds(r) /\ req[r].token = cachedToken[1].token

(***************************************************************************)
(* C30.  Under interleaved refreshes the expiry the cache records never    *)
(* moves backwards: an exchange that completes later does not replace the  *)
(* cached credential by one whose recorded expiry is earlier.              *)
(***************************************************************************)
CachedExpiryNeverMovesBack ==
    [][cachedToken # <<>> /\ cachedToken' # <<>> =>
           cachedToken'[1].expiresAt >= cachedToken[1].expiresAt]_vars

(***************************************************************************)
(* C31.  A coordinate that is present is not taken for a missing one: a     *)
(* POST with a service and a latitude or longitude of exactly 0 is not     *)
(* answered 400 "Missing required fields", it goes on to the encoding of   *)
(* its point.                                                              *)
(***************************************************************************)
ZeroCoordinateIsPresent ==
    \A r \in Requests :
        LET s == req[r]
        IN  /\ Parsed(r) /\ HasService(s.body)
            /\ s.body.latitude # <<>> /\ s.body.longitude # <<>>
            /\ (s.body.latitude[1] = 0 \/ s.body.longitude[1] = 0)
            => /\ s.resp # missingFields
               /\ s.pc # "done" /\ ~HasKey(s.body) =>
                      s.centerHash = encodeGeohash(Degrees(s.body.latitude[1]),
                                                   Degrees(s.body.longitude[1]), 7)

====
